---- MODULE Spec2Model ----
(***************************************************************************)
(* GrowSense dashboard: the client cache (dataCache + localStorage), the   *)
(* refresh orchestration (loadUserData and its triggers) and the parts of  *)
(* the backend the client talks to (/user_data, /user_data/historical).    *)
(*                                                                         *)
(* JavaScript is single threaded: an action is the code that runs between  *)
(* two awaits.  Several loadUserData calls can be suspended at an await at *)
(* the same time; `tasks` is the bag of these calls.                       *)
(***************************************************************************)
EXTENDS Integers, Sequences, FiniteSets, Bags, TLC

\* ---------------------------------------------------------------- bounds
MaxTime  == 2      \* the clock stops here
MaxTasks == 2      \* loadUserData calls suspended at the same time
MaxLen   == 2      \* longest input list of the merge specification
MaxId    == 3      \* largest reading id of the merge specification
MaxT     == 2      \* largest sort key of the merge specification

\* ------------------------------------------- program constants (scaled)
recentReadingsLimit == 1             \* CONFIG.recentReadingsLimit (120)
maxDevices == 1                      \* CONFIG.maxDevices (4)
historicalHours == 1                 \* CONFIG.historicalHours (168)
historicalEmptyFetchCooldownMs == 1  \* CONFIG.historicalEmptyFetchCooldownMs (1 h), in clock ticks
HourLen == 2                         \* clock ticks per hour bucket

Owners == {"A", "B"}
Devices == {"d1"}       \* the devices registered to an owner
DeviceOwners == {"A"}   \* owners that have a registered device; B is an account without data
NoUser == "none"     \* currentUser === null, a falsy userId
Null   == -1         \* a null timestamp
NoId   == 0          \* a reading without (or with a falsy) id
CACHE_KEY_PREFIX == "growsense_cache_"

VARIABLES
    now,                        \* wall clock (Date.now()), shared by client and server
    store,                      \* remote store: readings in order of acceptance
    currentUser,
    dataCache,                  \* [readings, hourly_samples, last_fetch_timestamp]
    historicalFetchInProgress,
    historicalFetchCompleted,
    localStorage,               \* key -> stored record
    autoRefreshTimer,           \* an interval timer is live
    tasks,                      \* bag of suspended loadUserData calls
    emptyHistAt,                \* history: owner -> time of the last empty history result
    histNonEmpty,               \* history: owner -> a history fetch returned rows
    userData,                   \* the data object the displays read
    view,                       \* the readings the table and the cards show
    mOld, mNew, mCap, mOut, mDone,  \* merge specification: inputs, result, applied
    mB, mOut2,                  \* two merges in a row: second batch, result in the other order
    lArg, lOut, lDone,          \* load specification: argument, result, applied
    sAttempted, sOutcome, sRetry, \* save specification: flag passed, answer of setItem, answer a second setItem would get
    retries,                    \* requests sent again after a 401
    dArg, dMax, dOut, dDone,    \* downsample specification: list, budget, result, applied
    readings_cache,             \* server: (owner, device) -> cache entry
    reply,                      \* server: what the last read did and returned
    intervals,                  \* timer specification: ids of the intervals the browser runs
    lastTimerId,                \* timer specification: the id the last setInterval returned
    autoRefreshInterval,        \* timer specification: CONFIG.autoRefreshInterval
    fwPc,                       \* firmware: "asleep", or "post" inside uploadData
    bootCount,                  \* firmware: RTC counter of wake cycles
    consecutiveFailures,        \* firmware: RTC counter of failed wake cycles
    sleep_duration_seconds,     \* firmware: the sleep duration kept in flash
    attempt,                    \* firmware: loop variable of uploadData
    posts,                      \* firmware: POST requests sent in this wake cycle
    httpResponseCode,           \* firmware: what the last POST returned
    wifiConnected,              \* firmware: result of connectToWiFi in this wake cycle
    uploadSuccess,              \* firmware: `success`, the result of uploadData in this wake cycle
    slept                       \* firmware: seconds passed to the last goToSleep

vars == << now, store, currentUser, dataCache, historicalFetchInProgress,
           historicalFetchCompleted, localStorage, autoRefreshTimer, tasks,
           emptyHistAt, histNonEmpty, userData, view,
           mOld, mNew, mCap, mOut, mDone, mB, mOut2, lArg, lOut, lDone,
           sAttempted, sOutcome, sRetry, retries, dArg, dMax, dOut, dDone,
           readings_cache, reply, intervals, lastTimerId, autoRefreshInterval,
           fwPc, bootCount, consecutiveFailures, sleep_duration_seconds, attempt,
           posts, httpResponseCode, wifiConnected, uploadSuccess, slept >>

clientVars == << now, store, currentUser, dataCache, historicalFetchInProgress,
                 historicalFetchCompleted, localStorage, autoRefreshTimer, tasks,
                 emptyHistAt, histNonEmpty, userData, view >>
viewVars == << userData, view >>
downVars == << dArg, dMax, dOut, dDone >>
serverVars == << readings_cache, reply >>
timerVars == << intervals, lastTimerId, autoRefreshInterval >>
fwVars == << fwPc, bootCount, consecutiveFailures, sleep_duration_seconds, attempt,
             posts, httpResponseCode, wifiConnected, uploadSuccess, slept >>
mergeVars == << mOld, mNew, mCap, mOut, mDone, mB, mOut2, downVars, serverVars, timerVars,
                fwVars >>
loadVars  == << lArg, lOut, lDone, sAttempted, sOutcome, sRetry, retries >>

\* ------------------------------------------------------------- helpers
Min(a, b) == IF a < b THEN a ELSE b
Range(s) == { s[i] : i \in 1..Len(s) }
Take(s, n) == SubSeq(s, 1, Min(n, Len(s)))
\* the ids a list of readings holds
IdsOf(s) == { s[i].id : i \in 1..Len(s) } \ { NoId }

\* ------------------------------------------------------- mergeReadings
\* Map.set: an existing key keeps its position, a new key goes last
MapSet(m, r) ==
    IF \E i \in 1..Len(m) : m[i].id = r.id
    THEN [ i \in 1..Len(m) |-> IF m[i].id = r.id THEN r ELSE m[i] ]
    ELSE Append(m, r)

\* forEach(reading => { if (reading.id) readingMap.set(reading.id, reading) })
RECURSIVE MapSetAll(_, _)
MapSetAll(m, rs) ==
    IF rs = << >> THEN m
    ELSE MapSetAll(IF Head(rs).id # NoId THEN MapSet(m, Head(rs)) ELSE m, Tail(rs))

\* put r behind every element whose key is >= r.t (Array.prototype.sort is stable)
InsertDesc(s, r) ==
    LET k == Cardinality({ i \in 1..Len(s) : s[i].t >= r.t })
    IN  SubSeq(s, 1, k) \o << r >> \o SubSeq(s, k + 1, Len(s))

\* merged.sort((a, b) => timeB - timeA) on the key server_timestamp || timestamp
RECURSIVE SortDescFrom(_, _)
SortDescFrom(acc, rest) ==
    IF rest = << >> THEN acc
    ELSE SortDescFrom(InsertDesc(acc, Head(rest)), Tail(rest))

SortDesc(s) == SortDescFrom(<< >>, s)

maxReadings == recentReadingsLimit * maxDevices

\* mergeReadings without merged.slice(0, maxReadings)
mergeReadingsNoTrim(oldReadings, newReadings, cap) ==
    IF newReadings = << >> THEN oldReadings
    ELSE SortDesc(MapSetAll(MapSetAll(<< >>, oldReadings), newReadings))

\* mergeReadings without the early return for an empty batch
mergeReadingsNoEarlyReturn(oldReadings, newReadings, cap) ==
    Take(SortDesc(MapSetAll(MapSetAll(<< >>, oldReadings), newReadings)), cap)

\* mergeReadings without merged.sort
mergeReadingsNoSort(oldReadings, newReadings, cap) ==
    IF newReadings = << >> THEN oldReadings
    ELSE Take(MapSetAll(MapSetAll(<< >>, oldReadings), newReadings), cap)

\* mergeReadings that keeps the incoming batch alone
mergeReadingsReplace(oldReadings, newReadings, cap) ==
    IF newReadings = << >> THEN oldReadings
    ELSE Take(SortDesc(MapSetAll(<< >>, newReadings)), cap)

\* mergeReadings that lets the cached version of an id win
mergeReadingsOldWins(oldReadings, newReadings, cap) ==
    IF newReadings = << >> THEN oldReadings
    ELSE Take(SortDesc(MapSetAll(MapSetAll(<< >>, newReadings), oldReadings)), cap)

\* mergeReadings with the value CONFIG.recentReadingsLimit * CONFIG.maxDevices has
mergeReadingsCap(oldReadings, newReadings, cap) ==
    IF newReadings = << >> THEN oldReadings
    ELSE Take(SortDesc(MapSetAll(MapSetAll(<< >>, oldReadings), newReadings)), cap)

mergeReadings(oldReadings, newReadings) ==
    mergeReadingsCap(oldReadings, newReadings, maxReadings)

\* ------------------------------------------------- localStorage cache
getLocalStorageKey(userId) == << CACHE_KEY_PREFIX, userId >>

\* what the code sees as `null`: every optional access on it yields nothing
NullCache ==
    [ user_id |-> NoUser, json_ok |-> TRUE, readings |-> << >>, hourly_samples |-> << >>,
      last_fetch_timestamp |-> Null, historical_fetch_attempted_at |-> Null ]

EmptyCache ==
    [ readings |-> << >>, hourly_samples |-> << >>, last_fetch_timestamp |-> Null ]

\* let userData = null
NoUserData == [ loaded |-> FALSE, readings |-> << >> ]

\* loadFromLocalStorage without the check of data.user_id
loadFromLocalStorageUnchecked(ls, userId) ==
    IF userId = NoUser THEN NullCache
    ELSE IF getLocalStorageKey(userId) \notin DOMAIN ls THEN NullCache
    ELSE LET data == ls[getLocalStorageKey(userId)]
         IN  IF ~data.json_ok THEN NullCache ELSE data

loadFromLocalStorage(ls, userId) ==
    IF userId = NoUser THEN NullCache
    ELSE IF getLocalStorageKey(userId) \notin DOMAIN ls THEN NullCache
    ELSE LET data == ls[getLocalStorageKey(userId)]
         IN  IF ~data.json_ok THEN NullCache          \* JSON.parse throws, caught
             ELSE IF data.user_id = userId THEN data
             ELSE NullCache

Remove(ls, keys) == [ k \in (DOMAIN ls) \ keys |-> ls[k] ]

\* clearLocalStorageCache without localStorage.removeItem
clearLocalStorageCacheKeeps(ls, userId) == ls

clearLocalStorageCache(ls, userId) ==
    IF userId = NoUser THEN ls ELSE Remove(ls, { getLocalStorageKey(userId) })

\* clearOldCaches without the test key.startsWith(CACHE_KEY_PREFIX)
clearOldCachesAnyKey(ls, keepUserId) ==
    Remove(ls, { k \in DOMAIN ls : k # getLocalStorageKey(keepUserId) })

clearOldCaches(ls, keepUserId) ==
    Remove(ls, { k \in DOMAIN ls :
                   k[1] = CACHE_KEY_PREFIX /\ k # getLocalStorageKey(keepUserId) })

\* outcome of localStorage.setItem: "ok", "quota" (QuotaExceededError), "error"
SaveOutcomes == { "ok", "quota", "error" }

\* saveToLocalStorage that does not read the existing record
saveToLocalStorageFreshStamp(ls, userId, cacheData, historicalFetchAttempted, outcome) ==
    IF userId = NoUser THEN ls
    ELSE LET key == getLocalStorageKey(userId)
             toSave ==
                 [ user_id |-> userId, json_ok |-> TRUE,
                   readings |-> cacheData.readings,
                   hourly_samples |-> cacheData.hourly_samples,
                   last_fetch_timestamp |-> cacheData.last_fetch_timestamp,
                   historical_fetch_attempted_at |->
                       IF historicalFetchAttempted THEN now ELSE Null ]
         IN  CASE outcome = "ok" ->
                    [ k \in (DOMAIN ls) \cup { key } |-> IF k = key THEN toSave ELSE ls[k] ]
               [] outcome = "quota" -> clearOldCaches(ls, userId)
               [] OTHER -> ls

saveToLocalStorage(ls, userId, cacheData, historicalFetchAttempted, outcome) ==
    IF userId = NoUser THEN ls
    ELSE LET key == getLocalStorageKey(userId)
             existing == loadFromLocalStorage(ls, userId)
             toSave ==
                 [ user_id |-> userId, json_ok |-> TRUE,
                   readings |-> cacheData.readings,
                   hourly_samples |-> cacheData.hourly_samples,
                   last_fetch_timestamp |-> cacheData.last_fetch_timestamp,
                   historical_fetch_attempted_at |->
                       IF historicalFetchAttempted THEN now
                       ELSE existing.historical_fetch_attempted_at ]
         IN  CASE outcome = "ok" ->
                    [ k \in (DOMAIN ls) \cup { key } |-> IF k = key THEN toSave ELSE ls[k] ]
               [] outcome = "quota" -> clearOldCaches(ls, userId)
               [] OTHER -> ls

\* ---------------------------------------------------------------- server
\* GET /user_data?limit=..&since=..: server_timestamp > since, newest first, limited
UserDataAnswer(st, owner, since, limit) ==
    Take(SortDesc(SelectSeq(st, LAMBDA r : r.owner = owner /\ (since = Null \/ r.t > since))),
         limit)

Bucket(t) == t \div HourLen

\* the reading of its device and bucket that comes first when the rows are read
\* newest first
NewestOfBucket(s, i) ==
    \A j \in 1..Len(s) :
        (s[j].device = s[i].device /\ Bucket(s[j].t) = Bucket(s[i].t))
            => (s[j].t < s[i].t \/ (s[j].t = s[i].t /\ j >= i))

FirstOfBucket(s, i) ==
    \A j \in 1..Len(s) :
        (s[j].device = s[i].device /\ Bucket(s[j].t) = Bucket(s[i].t))
            => (s[j].t > s[i].t \/ (s[j].t = s[i].t /\ j >= i))

RECURSIVE PickFirsts(_, _)
PickFirsts(s, i) ==
    IF i > Len(s) THEN << >>
    ELSE (IF FirstOfBucket(s, i) THEN << s[i] >> ELSE << >>) \o PickFirsts(s, i + 1)

\* GET /user_data/historical?hours=..: one reading per (device, hour bucket) of the window
sample(st, owner, hours, t) ==
    PickFirsts(SelectSeq(st, LAMBDA r : r.owner = owner /\ r.t > t - hours * HourLen), 1)

\* ------------------------------------------------------- loadUserData
\* a suspended call: [pc, userId, tokenUid, needsHistoricalFetch, resp]; tokenUid is
\* the user whose token the pending request carries
\* pc: "both"   awaiting Promise.all, the /user_data response has not arrived
\*     "dev"    /user_data was merged, awaiting the devices response
\*     "zombie" loadUserData ended in its catch (devices failed) while
\*              fetchUserData is still awaiting its response
\*     "hist"   awaiting fetchHistoricalData
\* A devices response that arrives before the /user_data response changes
\* no state, so it is taken at the moment Promise.all resolves.
Calls == BagToSet(tasks)
HasFree == BagCardinality(tasks) < MaxTasks
Drop(t) == tasks (-) SetToBag({ t })
Replace(t, t2) == (tasks (-) SetToBag({ t })) (+) SetToBag({ t2 })

\* loadUserData from its entry to the first await: cache check, restore from
\* localStorage, and the two requests of Promise.all are sent; the server
\* answers /user_data from the store as it is when the request arrives
loadUserDataFrom(bag, userId, dc, completed) ==
    LET cachedData == loadFromLocalStorage(localStorage, userId)
        hasHistoricalInLocalStorage == Len(cachedData.hourly_samples) > 0
        hasHistoricalInMemory == Len(dc.hourly_samples) > 0
        recentlyFetchedEmpty ==
            /\ cachedData.historical_fetch_attempted_at # Null
            /\ ~((now - cachedData.historical_fetch_attempted_at)
                      > historicalEmptyFetchCooldownMs)
        needs == /\ ~hasHistoricalInLocalStorage /\ ~hasHistoricalInMemory
                 /\ ~completed /\ ~recentlyFetchedEmpty
        restore == cachedData # NullCache /\ ~hasHistoricalInMemory
        dc2 == IF restore
               THEN [ readings |-> cachedData.readings,
                      hourly_samples |-> cachedData.hourly_samples,
                      last_fetch_timestamp |-> cachedData.last_fetch_timestamp ]
               ELSE dc
    IN  /\ dataCache' = dc2
        /\ historicalFetchCompleted' =
               IF restore /\ Len(cachedData.hourly_samples) > 0 THEN TRUE ELSE completed
        /\ tasks' = bag (+) SetToBag({
               [ pc |-> "both", userId |-> userId, tokenUid |-> userId,
                 needsHistoricalFetch |-> needs,
                 resp |-> UserDataAnswer(store, userId, dc2.last_fetch_timestamp,
                                         maxReadings) ] })

\* loadUserData called by a trigger: one more call in flight
loadUserDataStart(userId, dc, completed) ==
    loadUserDataFrom(tasks, userId, dc, completed)

\* the call returns
Finish(t) ==
    /\ tasks' = Drop(t)
    /\ UNCHANGED autoRefreshTimer

\* saveToLocalStorage with a catch that lets the exception of setItem escape:
\* loadUserData goes to its own catch and the displays are not updated
SaveAndFinishThrows(t, dc, attempted, ud) ==
    /\ \E outcome \in SaveOutcomes :
           /\ localStorage' = saveToLocalStorage(localStorage, t.userId, dc, attempted, outcome)
           /\ view' = IF outcome = "ok" THEN ud.readings ELSE view
    /\ Finish(t)

\* saveToLocalStorage(userId, dataCache, attempted) and the rest of the call:
\* updateDeviceCards() and updateUnifiedTable() render userData.readings
SaveAndFinish(t, dc, attempted, ud) ==
    /\ \E outcome \in SaveOutcomes :
           localStorage' = saveToLocalStorage(localStorage, t.userId, dc, attempted, outcome)
    /\ view' = ud.readings
    /\ Finish(t)

\* loadUserData after Promise.all resolved, up to the history request or the end.
\* fetchHistoricalData starts with getAuthHeaders: signed out it throws and the
\* catch / finally of the history block run at once; signed in the request
\* carries the token of the user signed in now
AfterFetch(t, dc) ==
    /\ userData' = [ loaded |-> TRUE, readings |-> t.resp ]     \* userData = data
    /\ IF t.needsHistoricalFetch /\ ~historicalFetchInProgress
       THEN IF currentUser = NoUser
            THEN /\ historicalFetchInProgress' = FALSE
                 /\ historicalFetchCompleted' = TRUE
                 /\ dataCache' = [ dc EXCEPT !.hourly_samples = << >> ]
                 /\ SaveAndFinish(t, dataCache', TRUE, userData')
            ELSE /\ historicalFetchInProgress' = TRUE
                 /\ dataCache' = dc
                 /\ tasks' = Replace(t, [ t EXCEPT !.pc = "hist", !.resp = << >>,
                                                   !.tokenUid = currentUser ])
                 /\ UNCHANGED << historicalFetchCompleted, localStorage,
                                 autoRefreshTimer, view >>
       ELSE /\ dataCache' = dc
            /\ SaveAndFinish(t, dc, FALSE, userData')
            /\ UNCHANGED << historicalFetchInProgress, historicalFetchCompleted >>

\* fetchUserData that always takes the response as the new list
fetchUserDataTakes(dc, resp) ==
    [ dc EXCEPT !.readings = resp, !.last_fetch_timestamp = now ]

\* fetchUserData after the response: merge or take, then move the cursor
fetchUserDataMerge(dc, resp) ==
    [ dc EXCEPT
        !.readings = IF dc.last_fetch_timestamp # Null /\ Len(dc.readings) > 0
                     THEN mergeReadings(dc.readings, resp)
                     ELSE resp,
        !.last_fetch_timestamp = now ]

DataOK(t) ==
    /\ t.pc \in { "both", "zombie" }
    /\ dataCache' = fetchUserDataMerge(dataCache, t.resp)
    /\ tasks' = IF t.pc = "both"       \* resp is now data.readings, the list data carries
                THEN Replace(t, [ t EXCEPT !.pc = "dev", !.resp = dataCache'.readings ])
                ELSE Drop(t)
    /\ UNCHANGED << now, store, currentUser, historicalFetchInProgress,
                    historicalFetchCompleted, localStorage, autoRefreshTimer,
                    emptyHistAt, histNonEmpty, mergeVars, loadVars, viewVars >>

\* the /user_data request fails: fetchUserData throws, loadUserData ends in its catch
DataFail(t) ==
    /\ t.pc \in { "both", "zombie" }
    /\ Finish(t)
    /\ UNCHANGED << now, store, currentUser, dataCache, historicalFetchInProgress,
                    historicalFetchCompleted, localStorage,
                    emptyHistAt, histNonEmpty, mergeVars, loadVars, viewVars >>

DevicesOK(t) ==
    /\ t.pc = "dev"
    /\ AfterFetch(t, dataCache)
    /\ UNCHANGED << now, store, currentUser,
                    emptyHistAt, histNonEmpty, mergeVars, loadVars >>

\* the devices request fails: Promise.all rejects, loadUserData ends in its
\* catch; a fetchUserData that is still waiting goes on alone
DevicesFail(t) ==
    /\ t.pc \in { "both", "dev" }
    /\ IF t.pc = "both"
       THEN /\ tasks' = Replace(t, [ t EXCEPT !.pc = "zombie" ])
            /\ UNCHANGED autoRefreshTimer
       ELSE Finish(t)
    /\ UNCHANGED << now, store, currentUser, dataCache, historicalFetchInProgress,
                    historicalFetchCompleted, localStorage,
                    emptyHistAt, histNonEmpty, mergeVars, loadVars, viewVars >>

\* the history request returns: try / catch / finally, then the save
\* the history block with a save that does not pass the attempt flag
HistDoneNoAttempt(t, historicalReadings) ==
    /\ historicalFetchInProgress' = FALSE
    /\ historicalFetchCompleted' = TRUE
    /\ dataCache' = [ dataCache EXCEPT !.hourly_samples = historicalReadings ]
    /\ userData' = userData
    /\ SaveAndFinish(t, dataCache', FALSE, userData)

HistDone(t, historicalReadings) ==
    /\ historicalFetchInProgress' = FALSE
    /\ historicalFetchCompleted' = TRUE
    /\ dataCache' = [ dataCache EXCEPT !.hourly_samples = historicalReadings ]
    /\ userData' = userData
    /\ SaveAndFinish(t, dataCache', TRUE, userData)

HistoricalOK(t) ==
    /\ t.pc = "hist"
    /\ LET rows == sample(store, t.tokenUid, historicalHours, now)
       IN  /\ HistDone(t, rows)
           /\ emptyHistAt' = IF rows = << >>
                             THEN [ emptyHistAt EXCEPT ![t.tokenUid] = now ]
                             ELSE emptyHistAt
           /\ histNonEmpty' = IF rows # << >>
                              THEN [ histNonEmpty EXCEPT ![t.tokenUid] = TRUE ]
                              ELSE histNonEmpty
    /\ UNCHANGED << now, store, currentUser, mergeVars, loadVars >>

HistoricalFail(t) ==
    /\ t.pc = "hist"
    /\ HistDone(t, << >>)
    /\ UNCHANGED << now, store, currentUser, emptyHistAt, histNonEmpty,
                    mergeVars, loadVars >>

\* ------------------------------------------------ triggers and auth
\* setInterval callback of startAutoRefresh
TimerTick ==
    /\ autoRefreshTimer /\ currentUser # NoUser /\ HasFree
    /\ loadUserDataStart(currentUser, dataCache, historicalFetchCompleted)
    /\ UNCHANGED << now, store, currentUser, historicalFetchInProgress, localStorage,
                    autoRefreshTimer, emptyHistAt, histNonEmpty, mergeVars, loadVars, viewVars >>

\* click on #refresh-btn
RefreshClick ==
    /\ currentUser # NoUser /\ HasFree
    /\ loadUserDataStart(currentUser, dataCache, historicalFetchCompleted)
    /\ UNCHANGED << now, store, currentUser, historicalFetchInProgress, localStorage,
                    autoRefreshTimer, emptyHistAt, histNonEmpty, mergeVars, loadVars, viewVars >>

\* startAutoRefresh() / stopAutoRefresh(): called by the change listener of
\* #auto-refresh-interval at any time the dashboard is shown, and by
\* handleAuthSuccess once its loadUserData has returned
SetRefreshInterval(on) ==
    /\ currentUser # NoUser
    /\ autoRefreshTimer # on
    /\ autoRefreshTimer' = on
    /\ UNCHANGED << now, store, currentUser, dataCache, historicalFetchInProgress,
                    historicalFetchCompleted, localStorage, tasks,
                    emptyHistAt, histNonEmpty, mergeVars, loadVars, viewVars >>

\* onAuthStateChanged(user): reset for a new user, then loadUserData
handleAuthSuccess(user) ==
    /\ currentUser # user /\ HasFree
    /\ currentUser' = user
    /\ historicalFetchInProgress' = FALSE
    /\ loadUserDataStart(user, EmptyCache, FALSE)
    /\ UNCHANGED << now, store, localStorage, autoRefreshTimer,
                    emptyHistAt, histNonEmpty, mergeVars, loadVars, viewVars >>

\* onAuthStateChanged(null)
handleAuthLogout ==
    /\ currentUser # NoUser
    /\ localStorage' = clearLocalStorageCache(localStorage, currentUser)
    /\ currentUser' = NoUser
    /\ dataCache' = EmptyCache
    /\ historicalFetchInProgress' = FALSE
    /\ historicalFetchCompleted' = FALSE
    /\ emptyHistAt' = [ emptyHistAt EXCEPT ![currentUser] = Null ]
    /\ histNonEmpty' = [ histNonEmpty EXCEPT ![currentUser] = FALSE ]
    /\ userData' = NoUserData
    /\ view' = << >>                   \* clearAllDisplays()
    /\ UNCHANGED << now, store, autoRefreshTimer, tasks, mergeVars, loadVars >>

\* the page is reloaded: the script starts again, localStorage stays
Reload ==
    /\ currentUser # NoUser
    /\ currentUser' = NoUser
    /\ dataCache' = EmptyCache
    /\ historicalFetchInProgress' = FALSE
    /\ historicalFetchCompleted' = FALSE
    /\ autoRefreshTimer' = FALSE
    /\ tasks' = EmptyBag
    /\ userData' = NoUserData
    /\ view' = << >>
    /\ UNCHANGED << now, store, localStorage, emptyHistAt, histNonEmpty,
                    mergeVars, loadVars >>

\* ------------------------------------------------------- environment
\* emptyHistAt keeps an empty result only while its cooldown window is open
Forget(at, t) ==
    [ o \in Owners |->
        IF at[o] # Null /\ t >= at[o] + historicalEmptyFetchCooldownMs THEN Null ELSE at[o] ]

Tick ==
    /\ now < MaxTime
    /\ now' = now + 1
    /\ emptyHistAt' = Forget(emptyHistAt, now')
    /\ UNCHANGED << store, currentUser, dataCache, historicalFetchInProgress,
                    historicalFetchCompleted, localStorage, autoRefreshTimer, tasks,
                    histNonEmpty, mergeVars, loadVars, viewVars >>

\* POST /upload_data of a device of `owner`: the store stamps the arrival time
Upload(owner) ==
    /\ now < MaxTime
    /\ now' = now + 1
    /\ \E device \in Devices :
           store' = Append(store, [ id |-> Len(store) + 1, owner |-> owner,
                                    device |-> device, t |-> now + 1 ])
    /\ emptyHistAt' = Forget(emptyHistAt, now')
    /\ UNCHANGED << currentUser, dataCache, historicalFetchInProgress,
                    historicalFetchCompleted, localStorage, autoRefreshTimer, tasks,
                    histNonEmpty, mergeVars, loadVars, viewVars >>

\* ------------------------------------------------------ specification
\* the variables of the merge and load specifications, at rest
DownIdle == dArg = << >> /\ dMax = 1 /\ dOut = << >> /\ dDone = FALSE
\* the server cache with no entry and no read done
NoEntry == [ readings |-> << >>, cached_at |-> Null, ttl_expires_at |-> Null ]
NoReply == [ kind |-> "none", key |-> << NoUser, "none" >>, queries |-> 0, readings |-> << >> ]
\* CONFIG.autoRefreshInterval as the page loads it, in units of 30 seconds
DefaultRefreshInterval == 2

TimerIdle == intervals = {} /\ lastTimerId = 0 /\ autoRefreshInterval = DefaultRefreshInterval
\* sleep_duration_seconds as flashed, in seconds
DefaultSleepSeconds == 30

\* the module before its first boot
FwIdle ==
    /\ fwPc = "asleep" /\ bootCount = 0 /\ consecutiveFailures = 0
    /\ sleep_duration_seconds = DefaultSleepSeconds
    /\ attempt = 0 /\ posts = 0 /\ httpResponseCode = 0
    /\ wifiConnected = "none" /\ uploadSuccess = "none" /\ slept = 0

ServerIdle ==
    /\ readings_cache = [ k \in Owners \X Devices |-> NoEntry ]
    /\ reply = NoReply
MergeIdle ==
    /\ mOld = << >> /\ mNew = << >> /\ mCap = maxReadings /\ mOut = << >> /\ mDone = FALSE
    /\ mB = << >> /\ mOut2 = << >>
    /\ DownIdle
    /\ ServerIdle
    /\ TimerIdle
    /\ FwIdle
LoadIdle ==
    /\ lArg = NoUser /\ lOut = NullCache /\ lDone = FALSE
    /\ sAttempted = FALSE /\ sOutcome = "none" /\ sRetry = "none"
    /\ retries = 0

Init ==
    /\ now = 0
    /\ store = << >>
    /\ currentUser = NoUser
    /\ dataCache = EmptyCache
    /\ historicalFetchInProgress = FALSE
    /\ historicalFetchCompleted = FALSE
    /\ localStorage = << >>
    /\ autoRefreshTimer = FALSE
    /\ tasks = EmptyBag
    /\ userData = NoUserData /\ view = << >>
    /\ emptyHistAt = [ o \in Owners |-> Null ]
    /\ histNonEmpty = [ o \in Owners |-> FALSE ]
    /\ MergeIdle
    /\ LoadIdle

\* one account uses the browser
Next ==
    \/ \E t \in Calls : DataOK(t)
    \/ \E t \in Calls : DataFail(t)
    \/ \E t \in Calls : DevicesOK(t)
    \/ \E t \in Calls : DevicesFail(t)
    \/ \E t \in Calls : HistoricalOK(t)
    \/ \E t \in Calls : HistoricalFail(t)
    \/ TimerTick
    \/ RefreshClick
    \/ \E on \in BOOLEAN : SetRefreshInterval(on)
    \/ handleAuthSuccess("A")
    \/ handleAuthLogout
    \/ Reload
    \/ Tick
    \/ \E owner \in DeviceOwners : Upload(owner)

Spec == Init /\ [][Next]_vars


\* two accounts use the browser one after the other; the clock stands still
\* and the store holds the one reading owner A's device has uploaded
InitOwners ==
    /\ now = 0
    /\ store = << [ id |-> 1, owner |-> "A", device |-> "d1", t |-> 0 ] >>
    /\ currentUser = NoUser
    /\ dataCache = EmptyCache
    /\ historicalFetchInProgress = FALSE
    /\ historicalFetchCompleted = FALSE
    /\ localStorage = << >>
    /\ autoRefreshTimer = FALSE
    /\ tasks = EmptyBag
    /\ userData = NoUserData /\ view = << >>
    /\ emptyHistAt = [ o \in Owners |-> Null ]
    /\ histNonEmpty = [ o \in Owners |-> FALSE ]
    /\ MergeIdle
    /\ LoadIdle

NextOwners ==
    \/ \E t \in Calls : DataOK(t)
    \/ \E t \in Calls : DevicesOK(t)
    \/ \E t \in Calls : HistoricalOK(t)
    \/ RefreshClick
    \/ \E user \in Owners : handleAuthSuccess(user)
    \/ handleAuthLogout
    \/ Reload

SpecOwners == InitOwners /\ [][NextOwners]_vars

\* ------------------------------------------- loadFromLocalStorage alone
\* what one key of localStorage can hold: a record saved for any user, with
\* or without content, or an item JSON.parse rejects
StoredRecords ==
    { [ user_id |-> u, json_ok |-> j,
        readings |-> IF full THEN << [ id |-> 1, owner |-> u, device |-> "d1", t |-> 0 ] >>
                     ELSE << >>,
        hourly_samples |-> << >>,
        last_fetch_timestamp |-> IF full THEN 0 ELSE Null,
        historical_fetch_attempted_at |-> h ] :
      u \in Owners, j \in BOOLEAN, full \in BOOLEAN, h \in { Null, 0 } }

InitLoad ==
    /\ now = 0 /\ store = << >>
    /\ currentUser = NoUser
    /\ dataCache = EmptyCache
    /\ historicalFetchInProgress = FALSE
    /\ historicalFetchCompleted = FALSE
    /\ \E keys \in SUBSET { getLocalStorageKey(u) : u \in Owners } :
           localStorage \in [ keys -> StoredRecords ]
    /\ autoRefreshTimer = FALSE
    /\ tasks = EmptyBag
    /\ userData = NoUserData /\ view = << >>
    /\ emptyHistAt = [ o \in Owners |-> Null ]
    /\ histNonEmpty = [ o \in Owners |-> FALSE ]
    /\ MergeIdle
    /\ LoadIdle

Load(userId) ==
    /\ lArg' = userId
    /\ lOut' = loadFromLocalStorage(localStorage, userId)
    /\ lDone' = TRUE
    /\ UNCHANGED << clientVars, mergeVars, sAttempted, sOutcome, sRetry, retries >>

NextLoad == \E userId \in Owners \cup { NoUser } : Load(userId)

SpecLoad == InitLoad /\ [][NextLoad]_vars

\* ------------------------------------------- saveToLocalStorage alone
\* what the memory cache can hold when it is saved
SavedCaches ==
    { EmptyCache,
      [ readings |-> << [ id |-> 2, owner |-> "A", device |-> "d1", t |-> 1 ] >>,
        hourly_samples |-> << >>, last_fetch_timestamp |-> 1 ] }

InitSave ==
    /\ now = 1 /\ store = << >>
    /\ currentUser = NoUser
    /\ dataCache \in SavedCaches
    /\ historicalFetchInProgress = FALSE
    /\ historicalFetchCompleted = FALSE
    /\ \E keys \in SUBSET { getLocalStorageKey(u) : u \in Owners } :
           localStorage \in [ keys -> StoredRecords ]
    /\ autoRefreshTimer = FALSE
    /\ tasks = EmptyBag
    /\ userData = NoUserData /\ view = << >>
    /\ emptyHistAt = [ o \in Owners |-> Null ]
    /\ histNonEmpty = [ o \in Owners |-> FALSE ]
    /\ MergeIdle
    /\ LoadIdle

\* saveToLocalStorage(userId, dataCache, attempted); setItem answers outcome, and
\* would answer retry if it were called a second time
Save(userId, attempted, outcome, retry) ==
    /\ ~lDone
    /\ lArg' = userId
    /\ lOut' = loadFromLocalStorage(localStorage, userId)
    /\ sAttempted' = attempted
    /\ sOutcome' = outcome
    /\ sRetry' = retry
    /\ localStorage' = saveToLocalStorage(localStorage, userId, dataCache, attempted, outcome)
    /\ lDone' = TRUE
    /\ UNCHANGED << now, store, currentUser, dataCache, historicalFetchInProgress,
                    historicalFetchCompleted, autoRefreshTimer, tasks, emptyHistAt,
                    histNonEmpty, mergeVars, viewVars, retries >>

NextSave ==
    \E userId \in Owners \cup { NoUser }, attempted \in BOOLEAN,
       outcome \in SaveOutcomes, retry \in SaveOutcomes :
        Save(userId, attempted, outcome, retry)

SpecSave == InitSave /\ [][NextSave]_vars

\* ---------------------------------------------- clearOldCaches alone
\* the keys localStorage can hold: the cache records of the two owners, a cache
\* record of an account used on this browser before, and an item of another
\* script of the page
EvictKeys ==
    { getLocalStorageKey(u) : u \in Owners } \cup
    { << CACHE_KEY_PREFIX, "old" >>, << "firebase:authUser", "A" >> }

EvictRecords == { r \in StoredRecords : r.historical_fetch_attempted_at = Null }

InitEvict ==
    /\ now = 0 /\ store = << >>
    /\ currentUser = NoUser
    /\ dataCache = EmptyCache
    /\ historicalFetchInProgress = FALSE
    /\ historicalFetchCompleted = FALSE
    /\ \E keys \in SUBSET EvictKeys : localStorage \in [ keys -> EvictRecords ]
    /\ autoRefreshTimer = FALSE
    /\ tasks = EmptyBag
    /\ userData = NoUserData /\ view = << >>
    /\ emptyHistAt = [ o \in Owners |-> Null ]
    /\ histNonEmpty = [ o \in Owners |-> FALSE ]
    /\ MergeIdle
    /\ LoadIdle

\* clearOldCaches(keepUserId); lOut keeps what the item of keepUserId was
ClearOld(keepUserId) ==
    /\ ~lDone
    /\ lArg' = keepUserId
    /\ lOut' = IF getLocalStorageKey(keepUserId) \in DOMAIN localStorage
               THEN localStorage[getLocalStorageKey(keepUserId)] ELSE NullCache
    /\ localStorage' = clearOldCaches(localStorage, keepUserId)
    /\ lDone' = TRUE
    /\ UNCHANGED << now, store, currentUser, dataCache, historicalFetchInProgress,
                    historicalFetchCompleted, autoRefreshTimer, tasks, emptyHistAt,
                    histNonEmpty, mergeVars, viewVars, sAttempted, sOutcome, sRetry,
                    retries >>

NextEvict == \E keepUserId \in Owners : ClearOld(keepUserId)

SpecEvict == InitEvict /\ [][NextEvict]_vars

\* ------------------------------------------- the auto-refresh timer alone
\* In this specification autoRefreshTimer holds what the source variable
\* holds: the id setInterval returned, or Null; `intervals` is the browser's
\* side, the intervals that were set and not cleared.
MaxTimerId == 6

\* the value of the #auto-refresh-interval dropdown: 0 is "off"
RefreshIntervals == { 0, 1, 2, 3 }

InitTimer ==
    /\ now = 0 /\ store = << >>
    /\ currentUser = NoUser
    /\ dataCache = EmptyCache
    /\ historicalFetchInProgress = FALSE
    /\ historicalFetchCompleted = FALSE
    /\ localStorage = << >>
    /\ autoRefreshTimer = Null
    /\ tasks = EmptyBag
    /\ userData = NoUserData /\ view = << >>
    /\ emptyHistAt = [ o \in Owners |-> Null ]
    /\ histNonEmpty = [ o \in Owners |-> FALSE ]
    /\ mOld = << >> /\ mNew = << >> /\ mCap = maxReadings /\ mOut = << >> /\ mDone = FALSE
    /\ mB = << >> /\ mOut2 = << >>
    /\ DownIdle
    /\ ServerIdle
    /\ TimerIdle
    /\ FwIdle
    /\ LoadIdle

\* what the timer actions leave alone
timerFrame ==
    UNCHANGED << now, store, dataCache, historicalFetchInProgress,
                 historicalFetchCompleted, localStorage, tasks, emptyHistAt,
                 histNonEmpty, viewVars, loadVars,
                 mOld, mNew, mCap, mOut, mDone, mB, mOut2, downVars, serverVars, fwVars >>

\* clearInterval(handle): the interval of that id stops
clearInterval(live, handle) == { i \in live : i.id # handle }

\* stopAutoRefresh(): clears the interval of the handle, if there is a handle
stopAutoRefresh ==
    /\ intervals' = IF autoRefreshTimer # Null
                    THEN clearInterval(intervals, autoRefreshTimer)
                    ELSE intervals
    /\ autoRefreshTimer' = Null
    /\ UNCHANGED lastTimerId

\* startAutoRefresh without the call of stopAutoRefresh
startAutoRefreshNoStop(ms) ==
    /\ lastTimerId < MaxTimerId
    /\ intervals' = intervals \cup { [ id |-> lastTimerId + 1, ms |-> ms ] }
    /\ autoRefreshTimer' = lastTimerId + 1
    /\ lastTimerId' = lastTimerId + 1

\* startAutoRefresh(): stopAutoRefresh(), then setInterval with the period
\* CONFIG.autoRefreshInterval has at the call (ms)
startAutoRefresh(ms) ==
    /\ lastTimerId < MaxTimerId
    /\ intervals' = ( IF autoRefreshTimer # Null
                      THEN clearInterval(intervals, autoRefreshTimer)
                      ELSE intervals )
                    \cup { [ id |-> lastTimerId + 1, ms |-> ms ] }
    /\ autoRefreshTimer' = lastTimerId + 1
    /\ lastTimerId' = lastTimerId + 1

\* the end of handleAuthSuccess(user), after loadUserData was awaited
AuthSuccessTimer(user, refreshInterval) ==
    /\ currentUser' = user
    /\ IF refreshInterval > 0
       THEN /\ autoRefreshInterval' = refreshInterval
            /\ startAutoRefresh(refreshInterval)
       ELSE UNCHANGED << autoRefreshTimer, timerVars >>
    /\ timerFrame

\* handleAuthLogout(): the timer is not touched
LogoutTimer ==
    /\ currentUser # NoUser
    /\ currentUser' = NoUser
    /\ UNCHANGED << autoRefreshTimer, timerVars >>
    /\ timerFrame

\* change listener of #auto-refresh-interval
ChangeInterval(interval) ==
    /\ currentUser # NoUser
    /\ IF interval > 0
       THEN /\ autoRefreshInterval' = interval
            /\ startAutoRefresh(interval)
       ELSE /\ stopAutoRefresh
            /\ UNCHANGED autoRefreshInterval
    /\ UNCHANGED currentUser
    /\ timerFrame

NextTimer ==
    \/ \E user \in Owners, refreshInterval \in RefreshIntervals :
           AuthSuccessTimer(user, refreshInterval)
    \/ LogoutTimer
    \/ \E interval \in RefreshIntervals : ChangeInterval(interval)

SpecTimer == InitTimer /\ [][NextTimer]_vars

\* ------------------------------------------------- the sensor module's firmware
\* One wake cycle is one run of setup(): it ends in goToSleep, and the next
\* boot starts setup() again with the RTC variables as they were left.
MAX_RETRIES == 3
MaxBoot == 8

\* what http.POST can return: a transport error (negative) or a status
HttpCodes == { -1, 200, 201, 302, 400, 401, 500 }

\* "sleep_duration" of the response body; Null when the key is missing
SleepUpdates == { Null, 14, 15, 60 }

InitFirmware ==
    /\ now = 0 /\ store = << >>
    /\ currentUser = NoUser
    /\ dataCache = EmptyCache
    /\ historicalFetchInProgress = FALSE
    /\ historicalFetchCompleted = FALSE
    /\ localStorage = << >>
    /\ autoRefreshTimer = FALSE
    /\ tasks = EmptyBag
    /\ userData = NoUserData /\ view = << >>
    /\ emptyHistAt = [ o \in Owners |-> Null ]
    /\ histNonEmpty = [ o \in Owners |-> FALSE ]
    /\ mOld = << >> /\ mNew = << >> /\ mCap = maxReadings /\ mOut = << >> /\ mDone = FALSE
    /\ mB = << >> /\ mOut2 = << >>
    /\ DownIdle
    /\ ServerIdle
    /\ TimerIdle
    /\ FwIdle
    /\ LoadIdle

fwFrame ==
    UNCHANGED << clientVars, viewVars, loadVars,
                 mOld, mNew, mCap, mOut, mDone, mB, mOut2, downVars, serverVars, timerVars >>

\* the test at the start of setup() that skips the cycle
tooManyFailuresAt6(failures) == failures > 6

tooManyFailures(failures) == failures > 5

\* uploadData retries whatever the status
uploadOutcomeRetriesAll(code, n) ==
    IF code = 200 \/ code = 201 THEN "true"
    ELSE IF n < MAX_RETRIES THEN "retry"
    ELSE "false"

\* what one pass of the loop of uploadData does with the code the POST
\* returned in attempt n: return true, return false, or go round again
uploadOutcome(code, n) ==
    IF code > 0 /\ (code = 200 \/ code = 201) THEN "true"
    ELSE IF code > 0 /\ code = 401 THEN "false"
    ELSE IF code > 0 /\ code >= 400 THEN "false"
    ELSE IF n + 1 <= MAX_RETRIES THEN "retry"
    ELSE "false"

\* the sleep duration after a 200/201 response carrying new_sleep
updatedSleep(current, new_sleep) ==
    IF new_sleep # Null /\ new_sleep >= 15 /\ new_sleep <= 3600 THEN new_sleep
    ELSE current

\* boot: setup() up to the result of connectToWiFi(), which is not called
\* when the cycle is skipped
Wake(connected) ==
    /\ fwPc = "asleep"
    /\ bootCount < MaxBoot
    /\ bootCount' = bootCount + 1
    /\ posts' = 0 /\ httpResponseCode' = 0 /\ uploadSuccess' = "none"
    /\ UNCHANGED sleep_duration_seconds
    /\ IF tooManyFailures(consecutiveFailures)
       THEN /\ consecutiveFailures' = 0
            /\ slept' = sleep_duration_seconds * 5
            /\ wifiConnected' = "none"
            /\ fwPc' = "asleep" /\ attempt' = 0
       ELSE IF ~connected
       THEN /\ consecutiveFailures' = consecutiveFailures + 1
            /\ slept' = sleep_duration_seconds
            /\ wifiConnected' = "false"
            /\ fwPc' = "asleep" /\ attempt' = 0
       ELSE /\ wifiConnected' = "true"
            /\ fwPc' = "post" /\ attempt' = 1
            /\ UNCHANGED << consecutiveFailures, slept >>
    /\ fwFrame

\* one pass of the loop of uploadData: the POST returns code (a 200/201
\* response carries new_sleep); when uploadData returns, the rest of setup()
Post(code, new_sleep) ==
    /\ fwPc = "post"
    /\ posts' = posts + 1
    /\ httpResponseCode' = code
    /\ UNCHANGED << bootCount, wifiConnected >>
    /\ LET outcome == uploadOutcome(code, attempt)
       IN  IF outcome = "retry"
           THEN /\ attempt' = attempt + 1
                /\ UNCHANGED << fwPc, consecutiveFailures, sleep_duration_seconds,
                                uploadSuccess, slept >>
           ELSE /\ uploadSuccess' = outcome
                /\ sleep_duration_seconds' =
                       IF outcome = "true"
                       THEN updatedSleep(sleep_duration_seconds, new_sleep)
                       ELSE sleep_duration_seconds
                /\ consecutiveFailures' =
                       IF outcome = "true" THEN 0 ELSE consecutiveFailures + 1
                /\ slept' = sleep_duration_seconds'
                /\ fwPc' = "asleep"
                /\ UNCHANGED attempt
    /\ fwFrame

NextFirmware ==
    \/ \E connected \in BOOLEAN : Wake(connected)
    \/ \E code \in HttpCodes, new_sleep \in SleepUpdates : Post(code, new_sleep)

\* http.setTimeout bounds every POST and connectToWiFi gives up after
\* WIFI_CONNECT_TIMEOUT_MS, so a cycle that is awake takes its next step
SpecFirmware ==
    /\ InitFirmware
    /\ [][NextFirmware]_vars
    /\ WF_vars(\E code \in HttpCodes, new_sleep \in SleepUpdates : Post(code, new_sleep))

\* ------------------------------------------------- mergeReadings alone
\* a reading as mergeReadings sees it: its id and its sort key
MergeReadings == [ id : 0..MaxId, t : 1..MaxT ]

ListsUpTo(n) == UNION { [ 1..k -> MergeReadings ] : k \in 0..n }

\* a list as mergeReadings leaves it in the cache: newest first, no id twice
WellFormed(s) ==
    /\ \A i, j \in 1..Len(s) : i < j => s[i].t >= s[j].t
    /\ \A i, j \in 1..Len(s) : (i # j /\ s[i].id # NoId) => s[i].id # s[j].id

InitMerge ==
    /\ now = 0 /\ store = << >>
    /\ currentUser = NoUser
    /\ dataCache = EmptyCache
    /\ historicalFetchInProgress = FALSE
    /\ historicalFetchCompleted = FALSE
    /\ localStorage = << >>
    /\ autoRefreshTimer = FALSE
    /\ tasks = EmptyBag
    /\ userData = NoUserData /\ view = << >>
    /\ emptyHistAt = [ o \in Owners |-> Null ]
    /\ histNonEmpty = [ o \in Owners |-> FALSE ]
    /\ mOld \in ListsUpTo(MaxLen) /\ WellFormed(mOld)
    /\ mNew \in ListsUpTo(MaxLen)
    /\ mCap = maxReadings /\ mOut = << >> /\ mDone = FALSE
    /\ mB = << >> /\ mOut2 = << >>
    /\ DownIdle
    /\ ServerIdle
    /\ TimerIdle
    /\ FwIdle
    /\ LoadIdle

\* mergeReadings(mOld, mNew); the server never sends more than the cap
Merge(cap) ==
    /\ ~mDone
    /\ Len(mNew) <= cap
    /\ mCap' = cap
    /\ mOut' = mergeReadingsCap(mOld, mNew, cap)
    /\ mDone' = TRUE
    /\ UNCHANGED << clientVars, loadVars, mOld, mNew, mB, mOut2, downVars, serverVars, timerVars, fwVars >>

NextMerge == \E cap \in 1..MaxLen : Merge(cap)

SpecMerge == InitMerge /\ [][NextMerge]_vars

\* ------------------------------------- two refreshes, in either order
MaxBatch == 1

\* readings that carry an id
IdReadings == { r \in MergeReadings : r.id # NoId }

BatchesUpTo(n) == UNION { [ 1..k -> IdReadings ] : k \in 0..n }

\* a cached list and the responses of two refreshes that share no id
InitCommute ==
    /\ now = 0 /\ store = << >>
    /\ currentUser = NoUser
    /\ dataCache = EmptyCache
    /\ historicalFetchInProgress = FALSE
    /\ historicalFetchCompleted = FALSE
    /\ localStorage = << >>
    /\ autoRefreshTimer = FALSE
    /\ tasks = EmptyBag
    /\ userData = NoUserData /\ view = << >>
    /\ emptyHistAt = [ o \in Owners |-> Null ]
    /\ histNonEmpty = [ o \in Owners |-> FALSE ]
    /\ mOld \in BatchesUpTo(MaxLen) /\ WellFormed(mOld)
    /\ mNew \in BatchesUpTo(MaxBatch)
    /\ mB \in BatchesUpTo(MaxBatch)
    /\ IdsOf(mNew) \cap IdsOf(mB) = {}
    /\ mCap = maxReadings /\ mOut = << >> /\ mOut2 = << >> /\ mDone = FALSE
    /\ DownIdle
    /\ ServerIdle
    /\ TimerIdle
    /\ FwIdle
    /\ LoadIdle

\* mergeReadings(mergeReadings(mOld, mNew), mB) and the same with the batches swapped
MergeBoth(cap) ==
    /\ ~mDone
    /\ Len(mOld) <= cap /\ Len(mNew) <= cap /\ Len(mB) <= cap
    /\ mCap' = cap
    /\ mOut' = mergeReadingsCap(mergeReadingsCap(mOld, mNew, cap), mB, cap)
    /\ mOut2' = mergeReadingsCap(mergeReadingsCap(mOld, mB, cap), mNew, cap)
    /\ mDone' = TRUE
    /\ UNCHANGED << clientVars, loadVars, mOld, mNew, mB, downVars, serverVars, timerVars, fwVars >>

NextCommute == \E cap \in 1..MaxLen : MergeBoth(cap)

SpecCommute == InitCommute /\ [][NextCommute]_vars

\* --------------------------------------------- downsampleReadings alone
MaxDown == 5
MaxPoints == 3
MaxRef == 5

\* a list of readings as the comparison of line 792 sees it: each element is a
\* reference to an object, and one object can be in the list more than once
DownLists == UNION { [ 1..k -> 1..MaxRef ] : k \in 0..MaxDown }

\* Math.ceil(a / b)
Ceil(a, b) == (a + b - 1) \div b

\* downsampleReadings without the push of the last reading
downsampleReadingsNoLast(readings, maxPoints) ==
    IF Len(readings) <= maxPoints THEN readings
    ELSE LET stride == Ceil(Len(readings), maxPoints)
         IN  [ k \in 1..Ceil(Len(readings), stride) |-> readings[(k - 1) * stride + 1] ]

downsampleReadings(readings, maxPoints) ==
    IF Len(readings) <= maxPoints THEN readings
    ELSE LET stride == Ceil(Len(readings), maxPoints)
             \* i = 0, stride, 2 * stride, ... while i < readings.length
             sampled == [ k \in 1..Ceil(Len(readings), stride) |->
                              readings[(k - 1) * stride + 1] ]
         IN  IF sampled[Len(sampled)] # readings[Len(readings)]
             THEN Append(sampled, readings[Len(readings)])
             ELSE sampled

InitDownsample ==
    /\ now = 0 /\ store = << >>
    /\ currentUser = NoUser
    /\ dataCache = EmptyCache
    /\ historicalFetchInProgress = FALSE
    /\ historicalFetchCompleted = FALSE
    /\ localStorage = << >>
    /\ autoRefreshTimer = FALSE
    /\ tasks = EmptyBag
    /\ userData = NoUserData /\ view = << >>
    /\ emptyHistAt = [ o \in Owners |-> Null ]
    /\ histNonEmpty = [ o \in Owners |-> FALSE ]
    /\ mOld = << >> /\ mNew = << >> /\ mCap = maxReadings /\ mOut = << >> /\ mDone = FALSE
    /\ mB = << >> /\ mOut2 = << >>
    /\ dArg \in DownLists
    /\ dMax \in 1..MaxPoints
    /\ dOut = << >> /\ dDone = FALSE
    /\ ServerIdle
    /\ TimerIdle
    /\ FwIdle
    /\ LoadIdle

\* downsampleReadings(dArg, dMax)
Downsample ==
    /\ ~dDone
    /\ dOut' = downsampleReadings(dArg, dMax)
    /\ dDone' = TRUE
    /\ UNCHANGED << clientVars, loadVars, mOld, mNew, mCap, mOut, mDone, mB, mOut2,
                    dArg, dMax, serverVars, timerVars, fwVars >>

NextDownsample == Downsample

SpecDownsample == InitDownsample /\ [][NextDownsample]_vars

\* ------------------------------------------ server read-cache (app/cache.py)
ttl_seconds == 1                \* ttl_seconds (300), in clock ticks
max_readings_per_device == 2    \* max_readings_per_device (200)
MaxStore == 3                   \* readings the store accepts

Keys == Owners \X Devices
\* ?since= of a read: none, or the time of the caller's previous refresh
Cursors == { Null } \cup { c \in 0..(MaxTime - 1) : c = now - 1 }
\* the timestamp a device gives a reading: the time of the upload or, after a
\* connectivity loss, an earlier one
DeviceTimes == { t \in 0..MaxTime : now - 1 <= t /\ t <= now }

\* now < ttl_expires_at on an entry that exists
Fresh(entry) == entry # NoEntry /\ now < entry.ttl_expires_at

\* readings_after(cursor)
After(readings, cursor) ==
    SelectSeq(readings, LAMBDA r : cursor = Null \/ r.t > cursor)

\* the list of an entry with rows upserted by id, newest first, at most N
Upsert(readings, rows) ==
    Take(SortDesc(MapSetAll(readings, rows)), max_readings_per_device)

\* the bounded query of the store for (owner, device, timestamp > cursor)
query(st, key, cursor) ==
    Take(SortDesc(SelectSeq(st, LAMBDA r : /\ r.owner = key[1] /\ r.device = key[2]
                                           /\ (cursor = Null \/ r.t > cursor))),
         max_readings_per_device)

\* put that appends without truncating
putNoTruncate(entry, reading) ==
    [ readings |-> SortDesc(MapSetAll(entry.readings, << reading >>)),
      cached_at |-> now,
      ttl_expires_at |-> now + ttl_seconds ]

\* put(owner, device, reading) on the entry of (owner, device)
put(entry, reading) ==
    [ readings |-> Upsert(entry.readings, << reading >>),
      cached_at |-> now,
      ttl_expires_at |-> now + ttl_seconds ]

\* a miss that stores an empty entry when the query fails
populatePoisons(entry, rows, ok) ==
    [ readings |-> IF ok THEN Upsert(entry.readings, rows) ELSE << >>,
      cached_at |-> now,
      ttl_expires_at |-> now + ttl_seconds ]

\* the entry after a miss: a failed query leaves it, rows are merged into it
populate(entry, rows, ok) ==
    IF ok THEN [ readings |-> Upsert(entry.readings, rows),
                 cached_at |-> now,
                 ttl_expires_at |-> now + ttl_seconds ]
    ELSE entry

\* the check of get / get_since that also serves an entry at its expiry time
servedFromMemoryAtExpiry(entry) == entry # NoEntry /\ now <= entry.ttl_expires_at

\* get / get_since serve from memory
servedFromMemory(entry) == Fresh(entry)

InitServer ==
    /\ now = 0 /\ store = << >>
    /\ currentUser = NoUser
    /\ dataCache = EmptyCache
    /\ historicalFetchInProgress = FALSE
    /\ historicalFetchCompleted = FALSE
    /\ localStorage = << >>
    /\ autoRefreshTimer = FALSE
    /\ tasks = EmptyBag
    /\ userData = NoUserData /\ view = << >>
    /\ emptyHistAt = [ o \in Owners |-> Null ]
    /\ histNonEmpty = [ o \in Owners |-> FALSE ]
    /\ MergeIdle
    /\ LoadIdle

\* POST /upload_data: the reading is written to the store, then put in the cache;
\* its timestamp is the device's and may be older than what the store holds
upload_data(key, t) ==
    /\ Len(store) < MaxStore
    /\ LET reading == [ id |-> Len(store) + 1, owner |-> key[1], device |-> key[2], t |-> t ]
       IN  /\ store' = Append(store, reading)
           /\ readings_cache' = [ readings_cache EXCEPT ![key] = put(@, reading) ]
    /\ UNCHANGED << now, currentUser, dataCache, historicalFetchInProgress,
                    historicalFetchCompleted, localStorage, autoRefreshTimer, tasks,
                    emptyHistAt, histNonEmpty, viewVars, loadVars,
                    mOld, mNew, mCap, mOut, mDone, mB, mOut2, downVars, reply, timerVars, fwVars >>

\* get(owner, device) when cursor is null, get_since(owner, device, cursor) otherwise;
\* ok: the store answers the query, if one is issued
get_since(key, cursor, ok) ==
    /\ LET entry == readings_cache[key]
       IN  IF servedFromMemory(entry)
           THEN /\ reply' = [ kind |-> "hit", key |-> key, queries |-> 0,
                              readings |-> After(entry.readings, cursor) ]
                /\ UNCHANGED readings_cache
           ELSE /\ readings_cache' =
                       [ readings_cache EXCEPT
                             ![key] = populate(@, query(store, key, cursor), ok) ]
                /\ reply' = [ kind |-> IF ok THEN "miss" ELSE "error", key |-> key,
                              queries |-> 1,
                              readings |-> IF ok
                                           THEN After(readings_cache'[key].readings, cursor)
                                           ELSE << >> ]
    /\ UNCHANGED << clientVars, loadVars,
                    mOld, mNew, mCap, mOut, mDone, mB, mOut2, downVars, timerVars, fwVars >>

NextServer ==
    \/ \E key \in Keys, t \in DeviceTimes : upload_data(key, t)
    \/ \E key \in Keys, cursor \in Cursors, ok \in BOOLEAN : get_since(key, cursor, ok)
    \/ Tick

SpecServer == InitServer /\ [][NextServer]_vars

\* ------------------------------------- /user_data/historical alone
SampleDevices == { "d1", "d2" }

\* what the store can hold: readings of any owner and device from the last two
\* hours, in any order of timestamps, with the ids the store gave them
SampleStores ==
    UNION { { st \in [ 1..k -> [ id : 1..k, owner : Owners, device : SampleDevices,
                                 t : (now + 1 - 2 * HourLen)..now ] ] :
                \A i \in 1..k : st[i].id = i /\ st[i].t >= 0 } : k \in 0..MaxStore }

InitSample ==
    /\ now \in MaxTime..(MaxTime + 1)
    /\ store \in SampleStores
    /\ currentUser = NoUser
    /\ dataCache = EmptyCache
    /\ historicalFetchInProgress = FALSE
    /\ historicalFetchCompleted = FALSE
    /\ localStorage = << >>
    /\ autoRefreshTimer = FALSE
    /\ tasks = EmptyBag
    /\ userData = NoUserData /\ view = << >>
    /\ emptyHistAt = [ o \in Owners |-> Null ]
    /\ histNonEmpty = [ o \in Owners |-> FALSE ]
    /\ MergeIdle
    /\ LoadIdle

\* GET /user_data/historical?hours=.. with the token of `owner`
historical(owner, hours) ==
    /\ reply = NoReply
    /\ reply' = [ kind |-> "historical", key |-> << owner, "all" >>, queries |-> 1,
                  readings |-> sample(store, owner, hours, now) ]
    /\ UNCHANGED << clientVars, loadVars,
                    mOld, mNew, mCap, mOut, mDone, mB, mOut2, downVars, readings_cache, timerVars, fwVars >>

NextSample == \E owner \in Owners, hours \in 1..historicalHours + 1 : historical(owner, hours)

SpecSample == InitSample /\ [][NextSample]_vars

\* ------------------------------------------------------ sign-out alone
\* a user is signed in, the store holds a record of that user that loads, the
\* memory cache holds anything a session leaves in it
InitLogout ==
    /\ now = 1 /\ store = << >>
    /\ currentUser \in Owners
    /\ dataCache \in SavedCaches
    /\ historicalFetchInProgress \in BOOLEAN
    /\ historicalFetchCompleted \in BOOLEAN
    /\ \E keys \in SUBSET { getLocalStorageKey(u) : u \in Owners } :
           localStorage \in [ keys -> StoredRecords ]
    /\ loadFromLocalStorage(localStorage, currentUser) # NullCache
    /\ autoRefreshTimer \in BOOLEAN
    /\ tasks = EmptyBag
    /\ userData = NoUserData /\ view = << >>
    /\ emptyHistAt = [ o \in Owners |-> Null ]
    /\ histNonEmpty = [ o \in Owners |-> FALSE ]
    /\ MergeIdle
    /\ LoadIdle

NextLogout == handleAuthLogout

SpecLogout == InitLogout /\ [][NextLogout]_vars

\* --------------------------------- sign-in with its await of the token
\* a handleAuthSuccess waiting for user.getIdToken()
TokenCall(user) ==
    [ pc |-> "token", userId |-> user, tokenUid |-> user,
      needsHistoricalFetch |-> FALSE, resp |-> << >> ]

\* handleAuthSuccess(user) up to idToken = await user.getIdToken(): the reset
\* for another user, then currentUser = user
handleAuthSuccessReset(user) ==
    /\ currentUser # user /\ HasFree
    /\ historicalFetchCompleted' = FALSE
    /\ historicalFetchInProgress' = FALSE
    /\ dataCache' = EmptyCache
    /\ currentUser' = user
    /\ tasks' = tasks (+) SetToBag({ TokenCall(user) })
    /\ UNCHANGED << now, store, localStorage, autoRefreshTimer,
                    emptyHistAt, histNonEmpty, mergeVars, loadVars, viewVars >>

\* getIdToken() has resolved: the dashboard is shown and loadUserData() runs for
\* the user signed in now; signed out it throws 'Not authenticated' at once
TokenOK(t) ==
    /\ t.pc = "token"
    /\ IF currentUser = NoUser
       THEN /\ Finish(t)
            /\ UNCHANGED << dataCache, historicalFetchCompleted >>
       ELSE /\ loadUserDataFrom(Drop(t), currentUser, dataCache, historicalFetchCompleted)
            /\ UNCHANGED autoRefreshTimer
    /\ UNCHANGED << now, store, currentUser, historicalFetchInProgress, localStorage,
                    emptyHistAt, histNonEmpty, mergeVars, loadVars, viewVars >>

\* no sign-in is waiting for its token: #dashboard, with its refresh button, is
\* shown only once the token is there, and sign-ins come one after the other
NoTokenPending == \A t \in Calls : t.pc # "token"

NextSwitch ==
    \/ \E t \in Calls : DataOK(t)
    \/ \E t \in Calls : DevicesOK(t)
    \/ \E t \in Calls : HistoricalOK(t)
    \/ \E t \in Calls : TokenOK(t)
    \/ NoTokenPending /\ RefreshClick
    \/ \E user \in Owners : NoTokenPending /\ handleAuthSuccessReset(user)
    \/ handleAuthLogout

SpecSwitch == InitOwners /\ [][NextSwitch]_vars

\* ------------------------------------------------ answers with 401
MaxRetry == 2

saveVars == << lArg, lOut, lDone, sAttempted, sOutcome, sRetry >>

\* /user_data answers 401. Signed in: idToken = await currentUser.getIdToken(true)
\* and return fetchUserData(), which sends the request again with the cursor
\* of now. Signed out: throw new Error('Authentication required')
Data401(t) ==
    /\ t.pc \in { "both", "zombie" }
    /\ IF currentUser # NoUser
       THEN /\ retries < MaxRetry
            /\ retries' = retries + 1
            /\ tasks' = Replace(t, [ t EXCEPT
                   !.tokenUid = currentUser,
                   !.resp = UserDataAnswer(store, currentUser,
                                           dataCache.last_fetch_timestamp, maxReadings) ])
            /\ UNCHANGED autoRefreshTimer
       ELSE /\ Finish(t)
            /\ UNCHANGED retries
    /\ UNCHANGED << now, store, currentUser, dataCache, historicalFetchInProgress,
                    historicalFetchCompleted, localStorage,
                    emptyHistAt, histNonEmpty, mergeVars, saveVars, viewVars >>

\* /devices answers 401: return fetchUserDevices() when signed in, else throw
Devices401(t) ==
    /\ t.pc \in { "both", "dev" }
    /\ IF currentUser # NoUser
       THEN /\ retries < MaxRetry
            /\ retries' = retries + 1
            /\ UNCHANGED << tasks, autoRefreshTimer >>
       ELSE /\ IF t.pc = "both"
               THEN /\ tasks' = Replace(t, [ t EXCEPT !.pc = "zombie" ])
                    /\ UNCHANGED autoRefreshTimer
               ELSE Finish(t)
            /\ UNCHANGED retries
    /\ UNCHANGED << now, store, currentUser, dataCache, historicalFetchInProgress,
                    historicalFetchCompleted, localStorage,
                    emptyHistAt, histNonEmpty, mergeVars, saveVars, viewVars >>

\* /user_data/historical answers 401: return fetchHistoricalData() when signed
\* in, else throw, which the catch of the history block takes
Historical401(t) ==
    /\ t.pc = "hist"
    /\ IF currentUser # NoUser
       THEN /\ retries < MaxRetry
            /\ retries' = retries + 1
            /\ tasks' = Replace(t, [ t EXCEPT !.tokenUid = currentUser ])
            /\ UNCHANGED << dataCache, historicalFetchInProgress, historicalFetchCompleted,
                            localStorage, autoRefreshTimer, viewVars >>
       ELSE /\ HistDone(t, << >>)
            /\ UNCHANGED retries
    /\ UNCHANGED << now, store, currentUser, emptyHistAt, histNonEmpty,
                    mergeVars, saveVars >>

\* a server that answers 401 at will
NextAuth ==
    \/ \E t \in Calls : DataOK(t)
    \/ \E t \in Calls : DevicesOK(t)
    \/ \E t \in Calls : HistoricalOK(t)
    \/ \E t \in Calls : Data401(t)
    \/ \E t \in Calls : Devices401(t)
    \/ \E t \in Calls : Historical401(t)
    \/ RefreshClick
    \/ handleAuthSuccess("A")
    \/ handleAuthLogout
    \/ \E owner \in DeviceOwners : Upload(owner)

SpecAuth == Init /\ [][NextAuth]_vars

\* ------------------------------------- the single-device page (main.js)
\* a fetchAndDisplayData call waiting for the answer of /get_data
GetDataCall ==
    [ pc |-> "get_data", userId |-> NoUser, tokenUid |-> NoUser,
      needsHistoricalFetch |-> FALSE, resp |-> << >> ]

\* clearDisplays(): '--' in the current readings, empty chart, 'No data available'
clearDisplays == << >>

\* DOMContentLoaded: the first fetchAndDisplayData is on its way, the timer runs
\* if #auto-refresh-toggle is checked
InitDevicePage ==
    /\ now = 0 /\ store = << >>
    /\ currentUser = NoUser
    /\ dataCache = EmptyCache
    /\ historicalFetchInProgress = FALSE
    /\ historicalFetchCompleted = FALSE
    /\ localStorage = << >>
    /\ autoRefreshTimer \in BOOLEAN
    /\ tasks = SetToBag({ GetDataCall })
    /\ userData = NoUserData /\ view = clearDisplays
    /\ emptyHistAt = [ o \in Owners |-> Null ]
    /\ histNonEmpty = [ o \in Owners |-> FALSE ]
    /\ MergeIdle
    /\ LoadIdle

\* fetchAndDisplayData up to its await fetch(url): called by the refresh button,
\* the device and limit selectors and the interval timer
fetchAndDisplayData(byTimer) ==
    /\ byTimer => autoRefreshTimer
    /\ HasFree
    /\ tasks' = tasks (+) SetToBag({ GetDataCall })
    /\ UNCHANGED << now, store, currentUser, dataCache, historicalFetchInProgress,
                    historicalFetchCompleted, localStorage, autoRefreshTimer,
                    emptyHistAt, histNonEmpty, viewVars, mergeVars, loadVars >>

\* the answer is 200: readings are shown, or the displays are cleared when
\* data.success is false or data.readings is empty
GetDataOK(t, success, readings) ==
    /\ t.pc = "get_data"
    /\ view' = IF success /\ Len(readings) > 0 THEN readings ELSE clearDisplays
    /\ tasks' = Drop(t)
    /\ UNCHANGED << now, store, currentUser, dataCache, historicalFetchInProgress,
                    historicalFetchCompleted, localStorage, autoRefreshTimer,
                    emptyHistAt, histNonEmpty, userData, mergeVars, loadVars >>

\* fetch rejects or the status is not ok: the catch block
GetDataFail(t) ==
    /\ t.pc = "get_data"
    /\ view' = clearDisplays
    /\ tasks' = Drop(t)
    /\ UNCHANGED << now, store, currentUser, dataCache, historicalFetchInProgress,
                    historicalFetchCompleted, localStorage, autoRefreshTimer,
                    emptyHistAt, histNonEmpty, userData, mergeVars, loadVars >>

\* change of #auto-refresh-toggle: startAutoRefresh() / stopAutoRefresh()
ToggleAutoRefresh(on) ==
    /\ autoRefreshTimer # on
    /\ autoRefreshTimer' = on
    /\ UNCHANGED << now, store, currentUser, dataCache, historicalFetchInProgress,
                    historicalFetchCompleted, localStorage, tasks,
                    emptyHistAt, histNonEmpty, viewVars, mergeVars, loadVars >>

NextDevicePage ==
    \/ \E byTimer \in BOOLEAN : fetchAndDisplayData(byTimer)
    \/ \E t \in Calls, success \in BOOLEAN, readings \in ListsUpTo(MaxLen) :
           WellFormed(readings) /\ GetDataOK(t, success, readings)
    \/ \E t \in Calls : GetDataFail(t)
    \/ \E on \in BOOLEAN : ToggleAutoRefresh(on)

SpecDevicePage == InitDevicePage /\ [][NextDevicePage]_vars

\* ========================================================== properties
maxHistoric == historicalHours * maxDevices

Cursor == dataCache.last_fetch_timestamp

\* a call was started in this step
Started == BagCardinality(tasks') > BagCardinality(tasks)

\* a history request for owner u was issued in this step
HistIssued(u) ==
    \E t \in BagToSet(tasks') :
        /\ t.pc = "hist" /\ t.tokenUid = u
        /\ CopiesIn(t, tasks') > CopiesIn(t, tasks)

WindowBuckets == historicalHours + 1

C3_NoLateReadingMissed ==
    (currentUser # NoUser /\ tasks = EmptyBag /\ Cursor # Null) =>
        \A i \in 1..Len(store) :
            (store[i].owner = currentUser /\ store[i].t <= Cursor) =>
                \/ store[i] \in Range(dataCache.readings)
                \/ /\ Len(dataCache.readings) = maxReadings
                   /\ \A j \in 1..Len(dataCache.readings) :
                          dataCache.readings[j].t > store[i].t

\* C4: a request never carries an older cursor than the one the client held
\* for the same owner when the refresh was triggered
C4_CursorMonotone ==
    [][ (Started /\ currentUser' = currentUser /\ Cursor # Null) =>
            (Cursor' # Null /\ Cursor' >= Cursor) ]_vars

\* C5: no history request is issued for an owner before T + cooldown, T being
\* the time a history fetch for that owner returned zero rows
C5_CooldownEnforced ==
    [][ \A u \in Owners :
            HistIssued(u) =>
                \/ emptyHistAt[u] = Null
                \/ now >= emptyHistAt[u] + historicalEmptyFetchCooldownMs ]_vars

\* C6: once a history fetch for an owner has returned rows, no history request
\* is issued for that owner again
C6_HistoryOnceEver ==
    [][ \A u \in Owners : HistIssued(u) => ~histNonEmpty[u] ]_vars

\* C7: the record stored under an owner's key holds only readings and hourly
\* samples of that owner
C7_OwnerIsolationStore ==
    \A u \in Owners :
        getLocalStorageKey(u) \in DOMAIN localStorage =>
            LET rec == localStorage[getLocalStorageKey(u)]
            IN  \A r \in Range(rec.readings) \cup Range(rec.hourly_samples) : r.owner = u

\* C9: at most one loadUserData is in flight
C9_OneRefreshInFlight ==
    \A t1, t2 \in Calls :
        (t1.pc # "zombie" /\ t2.pc # "zombie") => (t1 = t2 /\ CopiesIn(t1, tasks) = 1)

\* C10: for one owner at most one history request is in flight
C10_OneHistoryInFlight ==
    \A t1, t2 \in Calls :
        (t1.pc = "hist" /\ t2.pc = "hist" /\ t1.tokenUid = t2.tokenUid) =>
            (t1 = t2 /\ CopiesIn(t1, tasks) = 1)

\* ids of the readings of a list that have one

\* the version of id k a list holds: the last one, which is what Map.set keeps
VersionIn(s, k) ==
    s[CHOOSE i \in 1..Len(s) : s[i].id = k /\ \A j \in (i + 1)..Len(s) : s[j].id # k]

CountId(s, k) == Cardinality({ i \in 1..Len(s) : s[i].id = k })

\* C2 as stated: every id in both lists is in the result exactly once, as the
\* incoming version
C2_DedupAsStated ==
    mDone =>
        \A k \in IdsOf(mOld) \cap IdsOf(mNew) :
            /\ CountId(mOut, k) = 1
            /\ VersionIn(mOut, k) = VersionIn(mNew, k)

\* C2: no id is in the result twice; an id in both lists is in the result only
\* as the incoming version, and is in it when the trim drops nothing
C2_DedupCorrectness ==
    mDone =>
        /\ \A k \in IdsOf(mOut) : CountId(mOut, k) = 1
        /\ \A k \in IdsOf(mOld) \cap IdsOf(mNew) :
              /\ \A r \in Range(mOut) : r.id = k => r = VersionIn(mNew, k)
              /\ Cardinality(IdsOf(mOld) \cup IdsOf(mNew)) <= mCap => k \in IdsOf(mOut)

\* an id held in two versions is merged, the trim drops something, and the
\* result holds the incoming version
C2_Witness ==
    /\ mDone
    /\ \E k \in IdsOf(mOld) \cap IdsOf(mNew) :
          /\ VersionIn(mOld, k) # VersionIn(mNew, k)
          /\ VersionIn(mNew, k) \in Range(mOut)
    /\ Cardinality(IdsOf(mOld) \cup IdsOf(mNew)) > mCap

\* C8: loadFromLocalStorage(A) returns null or a record tagged A; a record
\* tagged with another user under A's key is treated as no cache
C8_OwnerIsolationOnLoad ==
    lDone =>
        /\ lOut = NullCache \/ lOut.user_id = lArg
        /\ (/\ getLocalStorageKey(lArg) \in DOMAIN localStorage
            /\ localStorage[getLocalStorageKey(lArg)].user_id # lArg) => lOut = NullCache

\* A's key holds a readable record tagged B, B's key holds B's record, and
\* the load for A found no cache
C8_Witness ==
    /\ lDone /\ lArg = "A" /\ lOut = NullCache
    /\ getLocalStorageKey("A") \in DOMAIN localStorage
    /\ getLocalStorageKey("B") \in DOMAIN localStorage
    /\ localStorage[getLocalStorageKey("A")].user_id = "B"
    /\ localStorage[getLocalStorageKey("A")].json_ok
    /\ localStorage[getLocalStorageKey("A")].readings # << >>

\* C11: once a refresh has failed, its /user_data response no longer moves the
\* cursor or changes the recent list
C11_FailedRefreshKeepsCache ==
    [][ \A t \in Calls :
            (t.pc = "zombie" /\ tasks' = Drop(t) /\ currentUser' = currentUser) =>
                /\ dataCache'.last_fetch_timestamp = dataCache.last_fetch_timestamp
                /\ dataCache'.readings = dataCache.readings ]_vars

\* the stored record of the signed-in user holds what the memory cache holds
InSync ==
    LET rec == loadFromLocalStorage(localStorage, currentUser)
    IN  IF rec = NullCache THEN dataCache = EmptyCache
        ELSE /\ rec.readings = dataCache.readings
             /\ rec.hourly_samples = dataCache.hourly_samples
             /\ rec.last_fetch_timestamp = dataCache.last_fetch_timestamp

\* this step is a call reaching saveToLocalStorage
WriteAttempted ==
    \E t \in Calls : (t.pc = "dev" /\ DevicesOK(t)) \/ HistoricalOK(t) \/ HistoricalFail(t)

\* C12: when the last refresh in flight ends and no durable write failed, the
\* stored record of the owner equals the memory cache
C12_PersistAfterMutation ==
    [][ (/\ tasks # EmptyBag /\ tasks' = EmptyBag
         /\ currentUser # NoUser /\ currentUser' = currentUser
         /\ ~WriteAttempted) => InSync' ]_vars

UnionById(old, new) ==
    { IF k \in IdsOf(new) THEN VersionIn(new, k) ELSE VersionIn(old, k) :
        k \in IdsOf(old) \cup IdsOf(new) }

SortedDesc(s) == \A i, j \in 1..Len(s) : i < j => s[i].t >= s[j].t

\* the example of the merge: capacity 3, ids 1 and 2 cached, ids 2 and 3 incoming
Scenario2 ==
    mergeReadingsCap(<< [id |-> 1, t |-> 100], [id |-> 2, t |-> 200] >>,
                     << [id |-> 2, t |-> 210], [id |-> 3, t |-> 300] >>, 3)
        = << [id |-> 3, t |-> 300], [id |-> 2, t |-> 210], [id |-> 1, t |-> 100] >>

AllThree == Range(mOld) \cup Range(mNew) \cup Range(mB)

\* every id has one timestamp and no two ids share a timestamp
DistinctKeys == \A r, q \in AllThree : (r.id = q.id) <=> (r.t = q.t)

\* C15 as stated: two batches with disjoint ids merged in either order leave the
\* same set of readings, also when the trim to capacity applies
C15_CommuteAsStated ==
    mDone => Range(mOut) = Range(mOut2)

\* C15: two batches with disjoint ids merged in either order leave the same set
\* of readings when the three lists together hold no more ids than the capacity,
\* or when every id has one timestamp and no two ids have the same timestamp
C15_CommuteDisjoint ==
    (mDone /\ (Cardinality(IdsOf(mOld) \cup IdsOf(mNew) \cup IdsOf(mB)) <= mCap \/ DistinctKeys))
        => Range(mOut) = Range(mOut2)

\* two non-empty batches merged in both orders, the trim dropping a reading
C15_Witness ==
    /\ mDone /\ mNew # << >> /\ mB # << >> /\ DistinctKeys
    /\ Cardinality(IdsOf(mOld) \cup IdsOf(mNew) \cup IdsOf(mB)) > mCap
    /\ Range(mOut) = Range(mOut2)

\* the stored record of the signed-in user has no hourly samples and its last
\* empty or failed history attempt is older than the cooldown
CooldownElapsed ==
    LET rec == loadFromLocalStorage(localStorage, currentUser)
    IN  /\ rec # NullCache
        /\ Len(rec.hourly_samples) = 0
        /\ rec.historical_fetch_attempted_at # Null
        /\ now - rec.historical_fetch_attempted_at > historicalEmptyFetchCooldownMs

\* C16: a refresh triggered for the signed-in user once the cooldown has elapsed,
\* with no hourly samples stored or in memory, is one that fetches the history
C16_FetchAfterCooldown ==
    [][ (/\ Started /\ currentUser # NoUser /\ currentUser' = currentUser
         /\ CooldownElapsed /\ Len(dataCache.hourly_samples) = 0) =>
            \E t \in BagToSet(tasks') :
                /\ CopiesIn(t, tasks') > CopiesIn(t, tasks)
                /\ t.needsHistoricalFetch ]_vars

\* the stored record of the owner last saved holds the memory cache
SavedRecordCurrent ==
    LET rec == loadFromLocalStorage(localStorage, lArg)
    IN  /\ rec # NullCache
        /\ rec.readings = dataCache.readings
        /\ rec.hourly_samples = dataCache.hourly_samples
        /\ rec.last_fetch_timestamp = dataCache.last_fetch_timestamp

OtherOwnersKeys(ls, userId) ==
    { k \in DOMAIN ls : k[1] = CACHE_KEY_PREFIX /\ k # getLocalStorageKey(userId) }

\* C17: after a write that failed for lack of space, the records of the other
\* owners are gone, and when the store would accept a second write the record
\* of the current owner holds the memory cache
C17_QuotaEvictThenRetry ==
    (lDone /\ lArg # NoUser /\ sOutcome = "quota") =>
        /\ OtherOwnersKeys(localStorage, lArg) = {}
        /\ sRetry = "ok" => SavedRecordCurrent

\* C18: when a call reaches its save and the durable write fails, the call still
\* ends with the displays showing its data, and the recent list, the cursor
\* and the hourly samples in memory are the ones the fetches produced
C18_SaveFailureKeepsMemory ==
    [][ \A t \in Calls :
            LET attempted == t.pc = "hist" \/ t.needsHistoricalFetch
                written == saveToLocalStorage(localStorage, t.userId, dataCache',
                                              attempted, "ok")
                saving == \/ t.pc = "dev" /\ DevicesOK(t) /\ tasks' = Drop(t)
                          \/ HistoricalOK(t)
                          \/ HistoricalFail(t)
            IN  (saving /\ localStorage' # written) =>
                    /\ tasks' = Drop(t)
                    /\ dataCache'.readings = dataCache.readings
                    /\ dataCache'.last_fetch_timestamp = dataCache.last_fetch_timestamp
                    /\ HistoricalOK(t) =>
                          dataCache'.hourly_samples =
                              sample(store, t.tokenUid, historicalHours, now)
                    /\ (t.pc = "dev" /\ ~t.needsHistoricalFetch) =>
                          dataCache'.hourly_samples = dataCache.hourly_samples
                    /\ view' = userData'.readings ]_vars

\* a refresh has ended and its readings are shown and cached in memory, while
\* the store holds no record of the user: the durable write failed
C18_Witness ==
    /\ tasks = EmptyBag /\ currentUser # NoUser
    /\ userData.loaded /\ dataCache.readings # << >>
    /\ view = dataCache.readings
    /\ dataCache.last_fetch_timestamp # Null
    /\ loadFromLocalStorage(localStorage, currentUser) = NullCache

\* C20: a refresh of the device page that fails while readings are shown leaves
\* them shown
C20_FailedRefreshKeepsView ==
    [][ \A t \in Calls :
            (GetDataFail(t) /\ view # clearDisplays) => view' = view ]_vars

\* the same for the dashboard of a signed-in user: a loadUserData that ends in
\* its catch leaves userData and the displays as they were
LoadUserDataKeepsView ==
    [][ \A t \in Calls :
            (DevicesFail(t) \/ DataFail(t)) => (userData' = userData /\ view' = view) ]_vars

\* C19: no request is sent again after an answer of 401
C19_NoRetryOn401 ==
    [][ retries' = retries ]_vars

\* C21: the /user_data request that a sign-in sends for the new user carries no
\* cursor, or the cache it is built from is the one restored from that user's
\* own stored record
C21_ColdOnSwitch ==
    [][ \A t \in Calls :
            (TokenOK(t) /\ currentUser # NoUser) =>
                LET rec == loadFromLocalStorage(localStorage, currentUser)
                IN  \/ dataCache'.last_fetch_timestamp = Null
                    \/ /\ rec # NullCache
                       /\ dataCache'.readings = rec.readings
                       /\ dataCache'.last_fetch_timestamp = rec.last_fetch_timestamp ]_vars

\* C22: handling the sign-out of a user leaves no record that loads for that
\* user, an empty memory cache without cursor, both history flags down, and
\* nobody signed in
C22_LogoutDestroysCache ==
    [][ handleAuthLogout =>
            /\ loadFromLocalStorage(localStorage', currentUser) = NullCache
            /\ getLocalStorageKey(currentUser) \notin DOMAIN localStorage'
            /\ dataCache' = EmptyCache
            /\ ~historicalFetchInProgress' /\ ~historicalFetchCompleted'
            /\ currentUser' = NoUser ]_vars

\* signed out after a session of A: A's record is gone, the record of B is kept
C22_Witness ==
    /\ currentUser = NoUser /\ dataCache = EmptyCache
    /\ loadFromLocalStorage(localStorage, "A") = NullCache
    /\ getLocalStorageKey("A") \notin DOMAIN localStorage
    /\ loadFromLocalStorage(localStorage, "B") # NullCache

\* C23: when the answer to a request that carried a cursor has no rows, the call
\* goes on to wait for /devices, the recent list is as before, and the cursor
\* is the time of the answer, not earlier than before
C23_EmptyFetchIsSuccess ==
    [][ \A t \in Calls :
            (/\ DataOK(t) /\ t.pc = "both" /\ t.resp = << >>
             /\ dataCache.last_fetch_timestamp # Null) =>
                /\ dataCache'.readings = dataCache.readings
                /\ dataCache'.last_fetch_timestamp = now
                /\ dataCache'.last_fetch_timestamp >= dataCache.last_fetch_timestamp
                /\ \E t2 \in BagToSet(tasks') :
                       t2 = [ t EXCEPT !.pc = "dev", !.resp = dataCache.readings ] ]_vars

\* a refresh after a saved one got no new rows: the list is the saved one, the
\* cursor is later than the saved one, and the call waits for /devices
C23_Witness ==
    LET rec == loadFromLocalStorage(localStorage, currentUser)
    IN  /\ rec # NullCache /\ rec.last_fetch_timestamp # Null
        /\ dataCache.readings # << >>
        /\ rec.readings = dataCache.readings
        /\ dataCache.last_fetch_timestamp > rec.last_fetch_timestamp
        /\ \E t \in Calls : t.pc = "dev" /\ t.resp = dataCache.readings

\* the stored record of a user as it is, NullCache when there is none
Stored(ls, userId) ==
    IF getLocalStorageKey(userId) \in DOMAIN ls THEN ls[getLocalStorageKey(userId)]
    ELSE NullCache

\* C24: a history request that fails ends like one that returns no rows: unless
\* the durable write fails, the record holds the time of the attempt, the recent
\* list and no samples; the call ends normally, the recent list stays in memory
\* and the displays show the readings of the refresh
C24_FailedHistoryCounts ==
    [][ \A t \in Calls :
            (\/ HistoricalFail(t)
             \/ HistoricalOK(t) /\ sample(store, t.tokenUid, historicalHours, now) = << >>) =>
                LET before == Stored(localStorage, t.userId)
                    after == Stored(localStorage', t.userId)
                IN  /\ \/ after = before
                       \/ /\ after.historical_fetch_attempted_at = now
                          /\ after.readings = dataCache.readings
                          /\ after.last_fetch_timestamp = dataCache.last_fetch_timestamp
                          /\ after.hourly_samples = << >>
                    /\ dataCache'.readings = dataCache.readings
                    /\ dataCache'.last_fetch_timestamp = dataCache.last_fetch_timestamp
                    /\ dataCache'.hourly_samples = << >>
                    /\ view' = userData.readings
                    /\ historicalFetchCompleted' /\ ~historicalFetchInProgress'
                    /\ tasks' = Drop(t) ]_vars

\* the history request failed although the server had samples to give: the
\* record holds the attempt, the recent reading and no samples, and the
\* reading is shown
C24_Witness ==
    LET rec == Stored(localStorage, currentUser)
    IN  /\ currentUser # NoUser /\ rec # NullCache
        /\ sample(store, currentUser, historicalHours, now) # << >>
        /\ \A o \in Owners : emptyHistAt[o] # now
        /\ rec.historical_fetch_attempted_at = now
        /\ rec.hourly_samples = << >>
        /\ rec.readings # << >> /\ rec.readings = dataCache.readings
        /\ view = dataCache.readings
        /\ historicalFetchCompleted /\ tasks = EmptyBag

\* C25: a list within the budget is returned as it is; a longer one gives the
\* elements at indices 0, K, 2K, ... with K = ceil(len / budget), in that order,
\* followed by nothing or by the last element, and ends with the last element
C25_StrideAndLast ==
    dDone =>
        IF Len(dArg) <= dMax THEN dOut = dArg
        ELSE LET K == Ceil(Len(dArg), dMax)
                 m == ((Len(dArg) - 1) \div K) + 1
             IN  /\ Len(dOut) \in { m, m + 1 }
                 /\ \A j \in 1..m : dOut[j] = dArg[(j - 1) * K + 1]
                 /\ dOut[Len(dOut)] = dArg[Len(dArg)]

\* five different readings and a budget of two: indices 0 and 3, then the last
C25_Witness ==
    /\ dDone /\ dMax = 2
    /\ dArg = << 1, 2, 3, 4, 5 >>
    /\ dOut = << 1, 4, 5 >>

\* C26: the list downsampleReadings returns has at most maxPoints elements
C26_AtMostMaxPoints ==
    dDone => Len(dOut) <= dMax

\* C27: a read of an entry that is absent or expired issues one store query
\* and, when the store answers, leaves a fresh entry that holds the newest row
\* of the answer; a read before ttl_expires_at issues none and leaves the
\* cache as it is
C27_HitMissAccounting ==
    [][ \A key \in Keys, cursor \in Cursors, ok \in BOOLEAN :
            get_since(key, cursor, ok) =>
                LET entry == readings_cache[key]
                    after == readings_cache'[key]
                    rows == query(store, key, cursor)
                IN  IF entry = NoEntry \/ now >= entry.ttl_expires_at
                    THEN /\ reply'.queries = 1
                         /\ reply'.kind # "hit"
                         /\ ok => /\ after # NoEntry
                                  /\ after.ttl_expires_at = now + ttl_seconds
                                  /\ rows # << >> => rows[1] \in Range(after.readings)
                                  /\ reply'.kind = "miss"
                    ELSE /\ reply'.queries = 0
                         /\ reply'.kind = "hit"
                         /\ readings_cache' = readings_cache ]_vars

\* a read found the entry expired, asked the store once and filled the entry
\* with the two readings of the key, which it returns
C27_Witness ==
    /\ reply.kind = "miss" /\ reply.queries = 1
    /\ now = 2
    /\ readings_cache[reply.key].cached_at = 2
    /\ readings_cache[reply.key].ttl_expires_at = 2 + ttl_seconds
    /\ Len(readings_cache[reply.key].readings) = 2
    /\ reply.readings = readings_cache[reply.key].readings

C31_HistoryDecisionValid ==
    [][ (~historicalFetchInProgress /\ historicalFetchInProgress') =>
            /\ ~historicalFetchCompleted
            /\ dataCache.hourly_samples = << >> ]_vars

\* C32: while nobody is signed in no step creates a durable record and no
\* step puts readings or a cursor into the memory cache the sign-out emptied
C32_NoWriteAfterLogout ==
    [][ (currentUser = NoUser /\ currentUser' = NoUser) =>
            /\ DOMAIN localStorage' \subseteq DOMAIN localStorage
            /\ dataCache = EmptyCache => dataCache' = EmptyCache ]_vars

\* the readings of a list that have no id
NoIdCount(s) == Cardinality({ i \in 1..Len(s) : s[i].id = NoId })

\* C33: merging into a list within the capacity, every old reading whose id is
\* not in the incoming batch, a reading without id included, is in the result
\* unless the result is full of readings that are not older; the result is as
\* long as the number of distinct readings of both lists, capped at capacity
C33_MergeLosesNothing ==
    (mDone /\ Len(mOld) <= mCap) =>
        /\ \A i \in 1..Len(mOld) :
               mOld[i].id \notin IdsOf(mNew) =>
                   \/ mOld[i] \in Range(mOut)
                   \/ /\ Len(mOut) = mCap
                      /\ \A k \in 1..Len(mOut) : mOut[k].t >= mOld[i].t
        /\ Len(mOut) = Min(mCap, Cardinality(IdsOf(mOld) \cup IdsOf(mNew))
                                   + NoIdCount(mOld) + NoIdCount(mNew))

\* C34: clearOldCaches(keep) removes every key with the cache prefix other
\* than keep's, leaves the item under keep's key as it is (absent if it was
\* absent), and leaves every key without the prefix with its item
C34_EvictOnlyOtherCaches ==
    [][ \A keep \in Owners :
            ClearOld(keep) =>
                /\ \A k \in DOMAIN localStorage :
                       (k[1] = CACHE_KEY_PREFIX /\ k # getLocalStorageKey(keep))
                           => k \notin DOMAIN localStorage'
                /\ \A k \in DOMAIN localStorage :
                       (k[1] # CACHE_KEY_PREFIX \/ k = getLocalStorageKey(keep))
                           => (k \in DOMAIN localStorage' /\ localStorage'[k] = localStorage[k])
                /\ DOMAIN localStorage' \subseteq DOMAIN localStorage ]_vars

\* after the pass for A: A's item is the one it was, the item of the other
\* script is there, and no other cache key is left
C34_Witness ==
    /\ lDone /\ lArg = "A"
    /\ lOut # NullCache
    /\ getLocalStorageKey("A") \in DOMAIN localStorage
    /\ localStorage[getLocalStorageKey("A")] = lOut
    /\ << "firebase:authUser", "A" >> \in DOMAIN localStorage
    /\ Cardinality(DOMAIN localStorage) = 2

\* C35: after every step at most one interval is live, it is the one the
\* handle names and it runs with the configured period, and none is live
\* after stopAutoRefresh
C35_AtMostOneTimer ==
    [][ /\ Cardinality(intervals') <= 1
        /\ intervals' = IF autoRefreshTimer' = Null THEN {}
                        ELSE { [ id |-> autoRefreshTimer', ms |-> autoRefreshInterval' ] }
        /\ ChangeInterval(0) => intervals' = {} ]_vars

\* the timer was started as often as the bound allows, by sign-ins and by
\* changes of the dropdown, and one interval is live
C35_Witness ==
    /\ lastTimerId = MaxTimerId
    /\ Cardinality(intervals) = 1
    /\ autoRefreshTimer = MaxTimerId
    /\ autoRefreshInterval # DefaultRefreshInterval

\* C36: a wake cycle sends at most MAX_RETRIES POST requests; a 200 or 201
\* ends uploadData with true and a status >= 400 ends it with false, both
\* without another request; any other code is retried while attempts are
\* left; and uploadData always returns
C36_UploadRetryBounded ==
    /\ [][ /\ posts' <= MAX_RETRIES
           /\ posts' # posts => (fwPc = "post" \/ posts' = 0)
           /\ (fwPc = "post" /\ httpResponseCode' \in { 200, 201 }) =>
                  uploadSuccess' = "true" /\ fwPc' = "asleep"
           /\ (fwPc = "post" /\ httpResponseCode' >= 400) =>
                  uploadSuccess' = "false" /\ fwPc' = "asleep"
           /\ (fwPc = "post" /\ httpResponseCode' \notin { 200, 201 }
                             /\ httpResponseCode' < 400) =>
                  IF posts' < MAX_RETRIES
                  THEN fwPc' = "post" /\ uploadSuccess' = "none"
                  ELSE fwPc' = "asleep" /\ uploadSuccess' = "false" ]_vars
    /\ [](fwPc = "post" => <>(fwPc = "asleep"))

\* uploadData gave up after MAX_RETRIES requests, the last one a transport error
C36_Witness ==
    /\ fwPc = "asleep" /\ posts = MAX_RETRIES
    /\ httpResponseCode = -1 /\ uploadSuccess = "false"
    /\ consecutiveFailures = 1

\* C37: consecutiveFailures goes up by one in a cycle whose WiFi connect or
\* upload fails and to 0 after a successful upload; a cycle that starts with
\* it above 5 connects and uploads nothing, resets it and sleeps five times
\* as long; it never exceeds 6, and every cycle ends in deep sleep
C37_FailureBackoff ==
    /\ [][ /\ consecutiveFailures' <= 6
           /\ (fwPc = "asleep" /\ consecutiveFailures > 5) =>
                  /\ fwPc' = "asleep" /\ wifiConnected' = "none" /\ posts' = 0
                  /\ consecutiveFailures' = 0
                  /\ slept' = 5 * sleep_duration_seconds
           /\ (fwPc = "asleep" /\ consecutiveFailures <= 5 /\ wifiConnected' = "false") =>
                  /\ fwPc' = "asleep" /\ posts' = 0
                  /\ consecutiveFailures' = consecutiveFailures + 1
                  /\ slept' = sleep_duration_seconds
           /\ (fwPc = "post" /\ fwPc' = "asleep") =>
                  /\ consecutiveFailures' =
                         IF uploadSuccess' = "true" THEN 0 ELSE consecutiveFailures + 1
                  /\ slept' = sleep_duration_seconds'
           /\ (fwPc = "post" /\ fwPc' = "post") =>
                  consecutiveFailures' = consecutiveFailures ]_vars
    /\ [](fwPc # "asleep" => <>(fwPc = "asleep"))

\* the cycle after six failed ones was skipped: counter back to 0, a sleep
\* of five times the duration, no connect and no request
C37_Witness ==
    /\ bootCount >= 7 /\ fwPc = "asleep"
    /\ consecutiveFailures = 0 /\ wifiConnected = "none" /\ posts = 0
    /\ slept = 5 * sleep_duration_seconds
    /\ sleep_duration_seconds = 60

\* the stamp of the record a browser holds for userId: that of the item
\* under the owner's key if it parses and names the owner, else none
StampOf(ls, userId) ==
    IF /\ getLocalStorageKey(userId) \in DOMAIN ls
       /\ ls[getLocalStorageKey(userId)].json_ok
       /\ ls[getLocalStorageKey(userId)].user_id = userId
    THEN ls[getLocalStorageKey(userId)].historical_fetch_attempted_at
    ELSE Null

\* C38: the record a save writes names the key's owner and carries the
\* current time as cooldown stamp when a history fetch was attempted, and
\* otherwise the stamp of the owner's record before the save
C38_SaveKeepsStamp ==
    [][ (~lDone /\ lDone' /\ lArg' # NoUser /\ sOutcome' = "ok") =>
            /\ getLocalStorageKey(lArg') \in DOMAIN localStorage'
            /\ localStorage'[getLocalStorageKey(lArg')].user_id = lArg'
            /\ localStorage'[getLocalStorageKey(lArg')].historical_fetch_attempted_at =
                   IF sAttempted' THEN now ELSE StampOf(localStorage, lArg') ]_vars

\* a save without a history attempt replaced A's record and kept its stamp
C38_Witness ==
    /\ lDone /\ lArg = "A" /\ ~sAttempted /\ sOutcome = "ok"
    /\ lOut.historical_fetch_attempted_at = 0
    /\ getLocalStorageKey("A") \in DOMAIN localStorage
    /\ localStorage[getLocalStorageKey("A")].historical_fetch_attempted_at = 0
    /\ localStorage[getLocalStorageKey("A")].last_fetch_timestamp = 1
    /\ now = 1

====
